---- MODULE Spec2Model ----
(***************************************************************************)
(* State-machine model of the memory-leak scripts of the repository:       *)
(*   src/leak.py    MemoryLeakSimulator, DataProcessor, ConnectionManager, *)
(*                  BackgroundWorker and main()                            *)
(*   src/teste4.py  vazamento_de_memoria()                                 *)
(*   src/teste.py   memory_leak_simulation()                               *)
(* Each script is a process of its own: `program` names the one running.   *)
(*                                                                         *)
(* Containers whose items are never read back (lists of payloads, of       *)
(* temporary objects, of events) are kept as their item count, len(...).   *)
(* The two dictionaries keyed by record id and the connection table keep   *)
(* their keys, since an insertion under an existing key overwrites.        *)
(* `now` is the last value the wall clock returned: every call of          *)
(* time.time() / datetime.now(), in any thread, returns a value that is    *)
(* not smaller, and as much larger as the scheduler and the machine make   *)
(* it.  A main loop sleep lasts at least SleepMin..SleepMax ticks; a       *)
(* worker's sleep of 0.1 s is shorter than a tick.                         *)
(***************************************************************************)
EXTENDS Integers, Sequences, FiniteSets, TLC

\* ---------------------------------------------------------------- bounds
\* Largest batch size drawn for process_data_batch (random.randint(500, 1500),
\* scaled down).
MaxBatch == 2
\* Iterations of a worker's loop that are explored.
MaxWork == 1
\* Iterations of the loops of teste4.py and teste.py that are explored.
MaxLoop == 40
\* Last clock reading explored, and the length of a minute in ticks (60 s,
\* scaled down).
MaxClock == 2
TicksPerMinute == 2

\* ------------------------------------------------------- program constants
NumWorkers == 3
NumListeners == 5
TempPerRecord == 100
MsgsPerConn == 50
SleepMin == 1
SleepMax == 3
ItemSize == 1000000

\* ------------------------------------------------------------------ inputs
\* The runs of leak.py that are explored: duration_minutes of run_simulation
\* and num_workers of start_background_workers.  The whole pool of workers is
\* explored with a zero duration (start-up, interruption and shut-down against
\* every interleaving of the workers), the iterations of the main loop with
\* one worker running beside them.
Configs == {[duration |-> 0, num_workers |-> NumWorkers],
            [duration |-> 1, num_workers |-> 1]}
\* The numbers of connections and of events drawn in an iteration
\* (random.randint(5, 15) and random.randint(10, 50), scaled down).
ConnCounts == {1}
EventCounts == {1}

Workers == 1..NumWorkers

VARIABLES
    program,                \* which script this process runs
    pc,                     \* position of the main thread
    now,                    \* time.time() / datetime.now()
    duration, num_workers,  \* the arguments of the run
    psutil,                 \* whether psutil can be imported
    GLOBAL_CACHE, EVENT_LISTENERS, THREAD_POOL,
    processed_records, memory_intensive_data, temp_files,
    active_connections, connection_history, data_buffer,
    event_listeners, listener_buffer,
    workers, running,
    wpc, is_running, work_queue, results,
    end_time, iteration, bound, i, cur,
    logged,                 \* number of log lines emitted, per kind
    failure, interruptedAt, \* uncaught exception; where KeyboardInterrupt arrived
    batchTotal, generated, loops, cyclesAfterStop, sleepsAfterStop,
    lateInserts,            \* history (read by no action's guard)
    vazamento, leaked_list, printed

globals == <<GLOBAL_CACHE, EVENT_LISTENERS, THREAD_POOL>>
procVars == <<processed_records, memory_intensive_data, temp_files>>
connVars == <<active_connections, connection_history, data_buffer>>
listenVars == <<event_listeners, listener_buffer>>
workerVars == <<wpc, is_running, work_queue, results, lateInserts>>
loopVars == <<end_time, iteration, bound, i, cur>>
envVars == <<program, duration, num_workers, psutil>>
histVars == <<batchTotal, generated, loops, cyclesAfterStop, sleepsAfterStop>>
scriptVars == <<vazamento, leaked_list, printed>>
vars == <<pc, now, globals, procVars, connVars, listenVars, workers, running,
          workerVars, loopVars, envVars, logged, failure, interruptedAt,
          histVars, scriptVars>>

NoLog == [start |-> 0, iter |-> 0, rss |-> 0, sizes |-> 0, warn |-> 0, final |-> 0,
          interrupted |-> 0, cleanup |-> 0]

Log(kind) == logged' = [logged EXCEPT ![kind] = @ + 1]

\* A dictionary store d[k] = v.
Put(d, k, v) == [x \in DOMAIN d \cup {k} |-> IF x = k THEN v ELSE d[x]]

EmptyDict == [x \in {} |-> 0]

Init ==
    /\ program \in {"leak", "teste4", "teste"}
    /\ pc = (IF program = "leak" THEN "setup"
             ELSE IF program = "teste4" THEN "t4_append" ELSE "t_append")
    /\ now = 0
    /\ \E c \in (IF program = "leak" THEN Configs
                 ELSE {[duration |-> 0, num_workers |-> 0]}) :
          duration = c.duration /\ num_workers = c.num_workers
    /\ psutil \in (IF program = "leak" THEN BOOLEAN ELSE {FALSE})
    /\ GLOBAL_CACHE = EmptyDict /\ EVENT_LISTENERS = 0 /\ THREAD_POOL = <<>>
    /\ processed_records = EmptyDict /\ memory_intensive_data = 0 /\ temp_files = 0
    /\ active_connections = EmptyDict /\ connection_history = <<>> /\ data_buffer = <<>>
    /\ event_listeners = 0 /\ listener_buffer = <<>>
    /\ workers = <<>> /\ running = TRUE
    /\ wpc = [w \in Workers |-> "none"]
    /\ is_running = [w \in Workers |-> TRUE]
    /\ work_queue = [w \in Workers |-> 0]
    /\ results = [w \in Workers |-> 0]
    /\ lateInserts = [w \in Workers |-> 0]
    /\ end_time = 0 /\ iteration = 0 /\ bound = 0 /\ i = 0 /\ cur = <<>>
    /\ logged = NoLog
    /\ failure = "none" /\ interruptedAt = "none"
    /\ batchTotal = 0 /\ generated = 0 /\ loops = 0 /\ cyclesAfterStop = 0 /\ sleepsAfterStop = 0
    /\ vazamento = <<>> /\ leaked_list = <<>> /\ printed = <<>>

\* ------------------------------------------------------------- the clock
\* The values a call of time.time() may return.
ClockValues == {now} \cup (now..MaxClock)

\* The values it may return after time.sleep(d).
AfterSleep(d) == {now + d} \cup ((now + d)..MaxClock)

\* ------------------------------------------------ leak.py: the main thread
\* Positions of run_simulation, all inside the try block of main().
TryPcs == {"setup", "spawn", "pool", "register", "begin", "loop_head",
           "rec_cache", "rec_local", "rec_mem", "conns", "events",
           "log", "sleep", "finished"}
\* Positions inside a call of process_data_batch.
BatchPcs == {"rec_cache", "rec_local", "rec_mem"}

\* KeyboardInterrupt has been delivered.
Interrupted == interruptedAt # "none"

\* The stop condition of run_simulation.
StopCondition == now >= end_time \/ ~running \/ Interrupted

\* run_simulation's opening log line, then setup_event_listeners: five
\* listeners, each appended to both lists.
SetupEventListeners ==
    /\ pc = "setup"
    /\ event_listeners' = event_listeners + NumListeners
    /\ EVENT_LISTENERS' = EVENT_LISTENERS + NumListeners
    /\ listener_buffer' = [l \in 1..NumListeners |-> 0]
    /\ Log("start")
    /\ pc' = "spawn"
    /\ UNCHANGED <<now, GLOBAL_CACHE, THREAD_POOL, procVars, connVars, workers,
                   running, workerVars, loopVars, envVars, failure,
                   interruptedAt, histVars, scriptVars>>

\* start_background_workers: BackgroundWorker(...) and worker.start() up to
\* thread.start(); the new thread runs from here on.
SpawnWorker ==
    /\ pc = "spawn"
    /\ IF Len(workers) < num_workers
       THEN /\ wpc' = [wpc EXCEPT ![Len(workers) + 1] = "check"]
            /\ pc' = "pool"
       ELSE /\ pc' = "begin"
            /\ UNCHANGED wpc
    /\ UNCHANGED <<now, globals, procVars, connVars, listenVars, workers, running,
                   is_running, work_queue, results, lateInserts, loopVars, envVars,
                   logged, failure, interruptedAt, histVars, scriptVars>>

\* BackgroundWorker.start, last line: THREAD_POOL.append(self.thread).
PoolThread ==
    /\ pc = "pool"
    /\ THREAD_POOL' = Append(THREAD_POOL, Len(workers) + 1)
    /\ pc' = "register"
    /\ UNCHANGED <<now, GLOBAL_CACHE, EVENT_LISTENERS, procVars, connVars,
                   listenVars, workers, running, workerVars, loopVars, envVars,
                   logged, failure, interruptedAt, histVars, scriptVars>>

\* start_background_workers: self.workers.append(worker).
RegisterWorker ==
    /\ pc = "register"
    /\ workers' = Append(workers, Len(workers) + 1)
    /\ pc' = "spawn"
    /\ UNCHANGED <<now, globals, procVars, connVars, listenVars, running,
                   workerVars, loopVars, envVars, logged, failure, interruptedAt,
                   histVars, scriptVars>>

\* start_time, end_time and iteration = 0.
Begin ==
    /\ pc = "begin"
    /\ now' \in ClockValues
    /\ end_time' = now' + duration * TicksPerMinute
    /\ iteration' = 0
    /\ pc' = "loop_head"
    /\ UNCHANGED <<globals, procVars, connVars, listenVars, workers, running,
                   workerVars, bound, i, cur, envVars, logged, failure,
                   interruptedAt, histVars, scriptVars>>

LoopConditionInclusive(t) == t <= end_time /\ running

LoopConditionEither(t) == t < end_time \/ running

\* while time.time() < end_time and self.running
LoopCondition(t) == t < end_time /\ running

\* The while test; when it passes, the iteration's first lines up to the draw
\* of the batch size and the entry into process_data_batch.
LoopHead ==
    /\ pc = "loop_head"
    /\ now' \in ClockValues
    /\ IF LoopCondition(now')
       THEN /\ iteration' = iteration + 1
            /\ Log("iter")
            /\ \E n \in 1..MaxBatch : bound' = n /\ batchTotal' = batchTotal + n
            /\ i' = 0
            /\ cyclesAfterStop' = cyclesAfterStop + (IF now' >= end_time \/ ~running THEN 1 ELSE 0)
            /\ pc' = "rec_cache"
       ELSE /\ pc' = "finished"
            /\ UNCHANGED <<iteration, logged, bound, i, batchTotal, cyclesAfterStop>>
    /\ UNCHANGED <<globals, procVars, connVars, listenVars, workers, running,
                   workerVars, end_time, cur, envVars, failure, interruptedAt,
                   generated, loops, sleepsAfterStop, scriptVars>>

\* ------------------------------------------- DataProcessor.process_data_batch
RecordIdNoIndex(ts, idx) == <<ts, 0>>

\* record_id = f"record_{datetime.now().timestamp()}_{i}"
RecordId(ts, idx) == <<ts, idx>>

StoreGlobalEvicting ==
    /\ now' \in ClockValues
    /\ generated' = generated + 1
    /\ cur' = [key |-> RecordId(now', i), rec |-> generated']
    /\ GLOBAL_CACHE' = Put(IF Cardinality(DOMAIN GLOBAL_CACHE) >= 2
                           THEN EmptyDict ELSE GLOBAL_CACHE, cur'.key, cur'.rec)

\* The record is generated and stored: GLOBAL_CACHE[record_id] = record.  A
\* record is told from the others by its serial number.
StoreGlobal ==
    /\ now' \in ClockValues
    /\ generated' = generated + 1
    /\ cur' = [key |-> RecordId(now', i), rec |-> generated']
    /\ GLOBAL_CACHE' = Put(GLOBAL_CACHE, cur'.key, cur'.rec)

\* One pass of the for loop, first part; the loop ends when i reaches batch_size.
RecCache ==
    /\ pc = "rec_cache"
    /\ IF i < bound
       THEN /\ StoreGlobal
            /\ pc' = "rec_local"
            /\ UNCHANGED <<bound, i>>
       ELSE /\ bound' \in ConnCounts
            /\ i' = 0
            /\ pc' = "conns"
            /\ UNCHANGED <<now, cur, GLOBAL_CACHE, generated>>
    /\ UNCHANGED <<EVENT_LISTENERS, THREAD_POOL, procVars, connVars, listenVars,
                   workers, running, workerVars, end_time, iteration, envVars,
                   logged, failure, interruptedAt, batchTotal, loops,
                   cyclesAfterStop, sleepsAfterStop, scriptVars>>

\* self.processed_records[record_id] = record
StoreLocal == processed_records' = Put(processed_records, cur.key, cur.rec)

RecLocal ==
    /\ pc = "rec_local"
    /\ StoreLocal
    /\ pc' = "rec_mem"
    /\ UNCHANGED <<now, globals, memory_intensive_data, temp_files, connVars,
                   listenVars, workers, running, workerVars, loopVars, envVars,
                   logged, failure, interruptedAt, histVars, scriptVars>>

SimulateProcessingShort == temp_files' = temp_files + (TempPerRecord - 1)

\* _simulate_processing: 100 temporary objects, then temp_files.extend(...).
SimulateProcessing == temp_files' = temp_files + TempPerRecord

\* self.memory_intensive_data.append(large_data), self._simulate_processing(record)
\* and the end of this pass of the loop.
RecMem ==
    /\ pc = "rec_mem"
    /\ memory_intensive_data' = memory_intensive_data + 1
    /\ SimulateProcessing
    /\ i' = i + 1
    /\ pc' = "rec_cache"
    /\ UNCHANGED <<now, globals, processed_records, connVars, listenVars, workers,
                   running, workerVars, end_time, iteration, bound, cur, envVars,
                   logged, failure, interruptedAt, histVars, scriptVars>>

\* ------------------------------------------------------ simulate_connections
\* One pass of the loop of simulate_connections: create_connection, which puts
\* the same connection object in active_connections and in connection_history,
\* then MsgsPerConn calls of send_data, each appending to the buffer of the
\* connection found under conn_id.  data_buffer[k] is the buffer length of the
\* k-th connection created.
Connect ==
    /\ pc = "conns"
    /\ IF i < bound
       THEN LET conn_id == <<i, now'>>
                obj == Len(connection_history) + 1
            IN /\ now' \in ClockValues
               /\ active_connections' = Put(active_connections, conn_id, obj)
               /\ connection_history' = Append(connection_history, conn_id)
               /\ data_buffer' = Append(data_buffer, MsgsPerConn)
               /\ i' = i + 1
               /\ UNCHANGED <<bound, pc>>
       ELSE /\ bound' \in EventCounts
            /\ i' = 0
            /\ pc' = "events"
            /\ UNCHANGED <<now, connVars>>
    /\ UNCHANGED <<globals, procVars, listenVars, workers, running, workerVars,
                   end_time, iteration, cur, envVars, logged, failure,
                   interruptedAt, histVars, scriptVars>>

\* The events of the iteration, `bound` of them: _handle_event appends each
\* processed event to the buffer of every listener of self.event_listeners.
HandleEvents ==
    /\ pc = "events"
    /\ listener_buffer' = [l \in DOMAIN listener_buffer |-> listener_buffer[l] + bound]
    /\ pc' = "log"
    /\ UNCHANGED <<now, globals, procVars, connVars, event_listeners, workers,
                   running, workerVars, loopVars, envVars, logged, failure,
                   interruptedAt, histVars, scriptVars>>

\* ------------------------------------------------------- _log_memory_usage
\* issubclass(exc, cls) for the exception classes that occur.
IsInstance(exc, cls) == exc = cls \/ (exc = "ModuleNotFoundError" /\ cls = "ImportError")

\* What `import psutil` raises when the module is missing.
ImportPsutil == IF psutil THEN "none" ELSE "ModuleNotFoundError"

CatchesAttributeError(exc) == IsInstance(exc, "AttributeError")

\* except ImportError
Catches(exc) == IsInstance(exc, "ImportError")

\* The try block logs the resident memory and then the four container sizes
\* (one size report); a failed import leaves the block at its first line.
LogMemoryUsage ==
    /\ pc = "log"
    /\ IF ImportPsutil = "none"
       THEN /\ logged' = [logged EXCEPT !.rss = @ + 1, !.sizes = @ + 1]
            /\ pc' = "sleep"
            /\ UNCHANGED failure
       ELSE IF Catches(ImportPsutil)
       THEN /\ Log("warn")
            /\ pc' = "sleep"
            /\ UNCHANGED failure
       ELSE /\ failure' = ImportPsutil
            /\ pc' = "finally"
            /\ UNCHANGED logged
    /\ UNCHANGED <<now, globals, procVars, connVars, listenVars, workers, running,
                   workerVars, loopVars, envVars, interruptedAt, histVars, scriptVars>>

\* time.sleep(random.uniform(1, 3)): when it returns, at least that much time
\* has passed.
Sleep ==
    /\ pc = "sleep"
    /\ \E d \in SleepMin..SleepMax : now' \in AfterSleep(d)
    /\ sleepsAfterStop' = sleepsAfterStop + (IF StopCondition THEN 1 ELSE 0)
    /\ pc' = "loop_head"
    /\ UNCHANGED <<globals, procVars, connVars, listenVars, workers, running,
                   workerVars, loopVars, envVars, logged, failure, interruptedAt,
                   batchTotal, generated, loops, cyclesAfterStop, scriptVars>>

\* logger.info("Simulação finalizada"); run_simulation returns to main().
Finished ==
    /\ pc = "finished"
    /\ Log("final")
    /\ pc' = "finally"
    /\ UNCHANGED <<now, globals, procVars, connVars, listenVars, workers, running,
                   workerVars, loopVars, envVars, failure, interruptedAt, histVars,
                   scriptVars>>

\* ------------------------------------------------------------------ main()
\* KeyboardInterrupt arrives while the main thread is inside the try block.
KeyboardInterrupt ==
    /\ pc \in TryPcs
    /\ interruptedAt' = pc
    /\ pc' = "except"
    /\ UNCHANGED <<now, globals, procVars, connVars, listenVars, workers, running,
                   workerVars, loopVars, envVars, logged, failure, histVars,
                   scriptVars>>

\* except KeyboardInterrupt: one log line.
Except ==
    /\ pc = "except"
    /\ Log("interrupted")
    /\ pc' = "finally"
    /\ UNCHANGED <<now, globals, procVars, connVars, listenVars, workers, running,
                   workerVars, loopVars, envVars, failure, interruptedAt, histVars,
                   scriptVars>>

\* finally: simulator.stop(), first line: self.running = False.
Stop ==
    /\ pc = "finally"
    /\ running' = FALSE
    /\ i' = 0
    /\ pc' = "stopping"
    /\ UNCHANGED <<now, globals, procVars, connVars, listenVars, workers,
                   workerVars, end_time, iteration, bound, cur, envVars,
                   logged, failure, interruptedAt, histVars, scriptVars>>

\* stop(): for worker in self.workers: worker.is_running = False; after the
\* loop, main() logs "Limpeza finalizada".
StopWorker ==
    /\ pc = "stopping"
    /\ IF i < Len(workers)
       THEN /\ is_running' = [is_running EXCEPT ![workers[i + 1]] = FALSE]
            /\ i' = i + 1
            /\ UNCHANGED <<pc, logged>>
       ELSE /\ Log("cleanup")
            /\ pc' = "done"
            /\ UNCHANGED <<is_running, i>>
    /\ UNCHANGED <<now, globals, procVars, connVars, listenVars, workers, running,
                   wpc, work_queue, results, lateInserts, end_time, iteration, bound,
                   cur, envVars, failure, interruptedAt, histVars, scriptVars>>

\* ------------------------------------------------- BackgroundWorker._work_loop
mainVars == <<pc, globals, procVars, connVars, listenVars, workers, running,
              loopVars, envVars, logged, failure, interruptedAt, histVars,
              scriptVars>>

WorkCheckForever(w) ==
    /\ wpc[w] = "check"
    /\ work_queue[w] < MaxWork
    /\ wpc' = [wpc EXCEPT ![w] = "body"]
    /\ UNCHANGED <<mainVars, now, is_running, work_queue, results, lateInserts>>

\* while self.is_running
WorkCheck(w) ==
    /\ wpc[w] = "check"
    /\ is_running[w] => work_queue[w] < MaxWork
    /\ wpc' = [wpc EXCEPT ![w] = IF is_running[w] THEN "body" ELSE "exit"]
    /\ UNCHANGED <<mainVars, now, is_running, work_queue, results, lateInserts>>

\* 1 when the insertion happens after the worker was told to stop.
Late(w) == IF is_running[w] THEN 0 ELSE 1

\* len(d) after d[time.time()] = v on a dictionary of n items: one more,
\* unless the clock reading is one that is already a key.
AfterTimedPut(n) == {n + 1} \cup (IF n > 0 THEN {n} ELSE {})

WorkBodyShared(w) ==
    /\ wpc[w] = "body"
    /\ work_queue' = [work_queue EXCEPT ![w] = @ + 1]
    /\ \E r \in AfterTimedPut(results[w]) : results' = [results EXCEPT ![w] = r]
    /\ GLOBAL_CACHE' = Put(GLOBAL_CACHE, <<now, w>>, 0)
    /\ lateInserts' = [lateInserts EXCEPT ![w] = @ + Late(w)]
    /\ wpc' = [wpc EXCEPT ![w] = "check"]
    /\ UNCHANGED <<pc, now, EVENT_LISTENERS, THREAD_POOL, procVars, connVars,
                   listenVars, workers, running, loopVars, envVars, logged, failure,
                   interruptedAt, histVars, scriptVars, is_running>>

\* The loop body: self.work_queue.append(work_data),
\* self.results[time.time()] = result, time.sleep(0.1).
WorkBody(w) ==
    /\ wpc[w] = "body"
    /\ work_queue' = [work_queue EXCEPT ![w] = @ + 1]
    /\ \E r \in AfterTimedPut(results[w]) : results' = [results EXCEPT ![w] = r]
    /\ lateInserts' = [lateInserts EXCEPT ![w] = @ + Late(w)]
    /\ wpc' = [wpc EXCEPT ![w] = "check"]
    /\ UNCHANGED <<mainVars, now, is_running>>

WorkerStep(w) == WorkCheck(w) \/ WorkBody(w)

\* ------------------------------------------- teste4.py: vazamento_de_memoria
leakVars == <<now, globals, procVars, connVars, listenVars, workers, running,
              workerVars, loopVars, envVars, logged, failure, interruptedAt,
              batchTotal, generated, cyclesAfterStop, sleepsAfterStop>>

T4Append ==
    /\ pc = "t4_append"
    /\ Len(vazamento) < MaxLoop
    /\ vazamento' = Append(vazamento, ItemSize)
    /\ pc' = "t4_print"
    /\ UNCHANGED <<leakVars, loops, leaked_list, printed>>

\* print(f"Objetos armazenados: {len(vazamento)}")
T4Print ==
    /\ pc = "t4_print"
    /\ printed' = Append(printed, Len(vazamento))
    /\ pc' = "t4_sleep"
    /\ UNCHANGED <<leakVars, loops, vazamento, leaked_list>>

T4Sleep ==
    /\ pc = "t4_sleep"
    /\ loops' = loops + 1
    /\ pc' = "t4_append"
    /\ UNCHANGED <<leakVars, scriptVars>>

\* KeyboardInterrupt inside the try block: the except clause prints its
\* message and control reaches the finally clause.
T4Interrupt ==
    /\ pc \in {"t4_append", "t4_print", "t4_sleep"}
    /\ interruptedAt' = pc
    /\ pc' = "t4_finally"
    /\ UNCHANGED <<now, globals, procVars, connVars, listenVars, workers, running,
                   workerVars, loopVars, envVars, logged, failure, histVars,
                   scriptVars>>

\* finally: del vazamento, which leaves no list behind.
T4Finally ==
    /\ pc = "t4_finally"
    /\ vazamento' = <<>>
    /\ pc' = "t4_done"
    /\ UNCHANGED <<leakVars, loops, leaked_list, printed>>

\* ------------------------------------------ teste.py: memory_leak_simulation
TAppend ==
    /\ pc = "t_append"
    /\ Len(leaked_list) < MaxLoop
    /\ leaked_list' = Append(leaked_list, ItemSize)
    /\ pc' = "t_sleep"
    /\ UNCHANGED <<leakVars, loops, vazamento, printed>>

TSleep ==
    /\ pc = "t_sleep"
    /\ loops' = loops + 1
    /\ pc' = "t_append"
    /\ UNCHANGED <<leakVars, scriptVars>>

\* ------------------------------------------------------------ specification
Next ==
    \/ SetupEventListeners \/ SpawnWorker \/ PoolThread \/ RegisterWorker
    \/ Begin \/ LoopHead
    \/ RecCache \/ RecLocal \/ RecMem
    \/ Connect \/ HandleEvents \/ LogMemoryUsage
    \/ Sleep \/ Finished
    \/ KeyboardInterrupt \/ Except \/ Stop \/ StopWorker
    \/ \E w \in Workers : WorkerStep(w)
    \/ T4Append \/ T4Print \/ T4Sleep \/ T4Interrupt \/ T4Finally
    \/ TAppend \/ TSleep

Spec == Init /\ [][Next]_vars

\* ==================================================================== claims
Size(d) == Cardinality(DOMAIN d)

LeakLoopPcs == {"loop_head", "rec_cache", "rec_local", "rec_mem", "conns",
                "events", "log", "sleep"}
T4LoopPcs == {"t4_append", "t4_print", "t4_sleep"}

\* No call of process_data_batch is under way, and none was cut short by an
\* interruption: every call made so far has returned.
BatchCallsComplete == pc \notin BatchPcs /\ interruptedAt \notin BatchPcs

\* C1: monotonic growth.  No step of the main thread or of a worker makes
\* any Growth Container smaller: the global cache, listener list and thread
\* pool, the processor's three containers, the connection table, the
\* connection history and every connection's buffer, every listener's buffer,
\* every worker's work_queue and results, and the lists of teste4.py and
\* teste.py while their loop runs.
C1_MonotonicGrowth ==
    [][ /\ Size(GLOBAL_CACHE') >= Size(GLOBAL_CACHE)
        /\ EVENT_LISTENERS' >= EVENT_LISTENERS
        /\ Len(THREAD_POOL') >= Len(THREAD_POOL)
        /\ Size(processed_records') >= Size(processed_records)
        /\ memory_intensive_data' >= memory_intensive_data
        /\ temp_files' >= temp_files
        /\ Size(active_connections') >= Size(active_connections)
        /\ Len(connection_history') >= Len(connection_history)
        /\ \A k \in DOMAIN data_buffer :
              k \in DOMAIN data_buffer' /\ data_buffer'[k] >= data_buffer[k]
        /\ \A l \in DOMAIN listener_buffer :
              l \in DOMAIN listener_buffer' /\ listener_buffer'[l] >= listener_buffer[l]
        /\ \A w \in Workers :
              work_queue'[w] >= work_queue[w] /\ results'[w] >= results[w]
        /\ pc' \in T4LoopPcs => Len(vazamento') >= Len(vazamento)
        /\ Len(leaked_list') >= Len(leaked_list) ]_vars

\* C1 witness: the second iteration of the main loop has stored its records
\* and connections while a worker stored its own.
C1_Witness ==
    /\ iteration = 2 /\ pc = "log"
    /\ Size(GLOBAL_CACHE) >= 2 /\ Len(connection_history) = 2
    /\ \E w \in Workers : work_queue[w] = 1

\* C2: once the stop condition of run_simulation holds (the duration has
\* elapsed, running is False or KeyboardInterrupt was delivered), the main
\* loop begins no further cycle, a cycle beginning with the evaluation of its
\* while condition, and begins at most one more sleep before it exits.
C2_StopWithinOneSleep == cyclesAfterStop = 0 /\ sleepsAfterStop <= 1

\* C2 witness: the duration elapsed in the middle of a cycle; the loop slept
\* once more and exited.
C2_Witness == sleepsAfterStop = 1 /\ pc = "finished" /\ iteration >= 1

\* C3 as stated: with a duration of 0 the loop has run exactly one cycle and
\* logged exactly one size report when it exits.
C3_OneCycleAtZero ==
    (program = "leak" /\ duration = 0 /\ pc = "finished")
        => (iteration = 1 /\ logged.sizes = 1)

\* C3 as amended: with a duration of 0 the loop runs no cycle at all: no record
\* is generated, no connection made, no size report and no psutil warning
\* logged, and the first evaluation of the while condition ends the loop.
C3_NoCycleAtZero ==
    (program = "leak" /\ duration = 0)
        => /\ iteration = 0 /\ generated = 0 /\ Len(connection_history) = 0
           /\ logged.sizes = 0 /\ logged.rss = 0 /\ logged.warn = 0
           /\ pc \notin (LeakLoopPcs \ {"loop_head"})

\* C3 witness: a run with a duration of 0 left the loop without interruption.
C3_Witness ==
    program = "leak" /\ duration = 0 /\ pc = "finished" /\ ~Interrupted

\* C4: without psutil no exception leaves _log_memory_usage: every call made
\* so far returned to run_simulation, which went on to the sleep and the next
\* iteration.
C4_LogSurvivesMissingPsutil ==
    (program = "leak" /\ ~psutil)
        => /\ failure = "none"
           /\ pc = "sleep" => logged.warn = iteration

\* C4 witness: a second iteration was begun after a call without psutil.
C4_Witness == ~psutil /\ iteration = 2 /\ logged.warn >= 1 /\ failure = "none"

\* C5 as stated: without psutil the size report is still logged in every
\* iteration.
C5_SizesStillReported ==
    (program = "leak" /\ ~psutil /\ pc = "sleep") => logged.sizes = iteration

\* C6: no insertion is lost.  Whenever every call of process_data_batch has
\* returned, GLOBAL_CACHE and processed_records hold as many items as the
\* batch sizes passed so far add up to; after k iterations of teste4.py
\* (teste.py) the list holds k items.
C6_NoInsertionLost ==
    /\ (program = "leak" /\ BatchCallsComplete)
          => /\ Size(GLOBAL_CACHE) = batchTotal
             /\ Size(processed_records) = batchTotal
    /\ pc = "t4_append" => Len(vazamento) = loops
    /\ pc = "t_append" => Len(leaked_list) = loops

\* C6 witness: two batches of the largest size have been stored.
C6_Witness ==
    iteration = 2 /\ pc = "conns" /\ batchTotal = 2 * MaxBatch

\* A step of worker w's loop.
WorkerMoves(w) == wpc[w] \in {"check", "body"} /\ wpc'[w] # wpc[w]

\* The steps worker w's loop is away from its end once is_running is False.
StepsToExit(w) == IF wpc[w] = "body" THEN 2 ELSE IF wpc[w] = "check" THEN 1 ELSE 0

\* C7: a worker whose is_running is False begins no new iteration and makes
\* at most one more insertion into its work_queue and results (the iteration
\* in flight); its flag stays False, its thread can always take its next
\* step, and every step it takes brings its loop closer to the end, which it
\* reaches in at most two steps.
C7_CooperativeStop ==
    /\ [](\A w \in Workers : lateInserts[w] <= 1)
    /\ [](\A w \in Workers :
            (~is_running[w] /\ wpc[w] \in {"check", "body"}) => ENABLED WorkerStep(w))
    /\ [][\A w \in Workers :
            ~is_running[w]
               => /\ ~is_running'[w]
                  /\ wpc[w] = "check" => wpc'[w] \in {"check", "exit"}
                  /\ StepsToExit(w)' <= StepsToExit(w)
                  /\ WorkerMoves(w) => StepsToExit(w)' < StepsToExit(w)]_vars

\* C7 witness: a worker was told to stop during an iteration, finished it and
\* left its loop.
C7_Witness == \E w \in Workers : lateInserts[w] = 1 /\ wpc[w] = "exit"

\* C8: whenever every call of process_data_batch has returned,
\* processed_records and GLOBAL_CACHE have the same keys and map each to the
\* same record, memory_intensive_data has one entry per generated record and
\* temp_files has 100.
C8_EveryContainerFilled ==
    (program = "leak" /\ BatchCallsComplete)
        => /\ DOMAIN processed_records = DOMAIN GLOBAL_CACHE
           /\ \A k \in DOMAIN GLOBAL_CACHE : processed_records[k] = GLOBAL_CACHE[k]
           /\ memory_intensive_data = generated
           /\ temp_files = 100 * generated

\* C8 witness: a second batch has been processed.
C8_Witness == iteration = 2 /\ pc = "events" /\ generated >= 3

\* C9: a step of a worker's loop leaves every shared container, the
\* processor's and the connection manager's containers, the listeners'
\* buffers and every other worker's work_queue and results as they were; its
\* loop body adds one item to its own work_queue.
C9_WorkerFrame ==
    [][\A w \in Workers :
          WorkerMoves(w)
             => /\ UNCHANGED <<GLOBAL_CACHE, EVENT_LISTENERS, THREAD_POOL, procVars,
                              connVars, listenVars>>
                /\ \A v \in Workers \ {w} :
                      work_queue'[v] = work_queue[v] /\ results'[v] = results[v]
                /\ wpc[w] = "body" => work_queue'[w] = work_queue[w] + 1]_vars

\* C9 witness: a worker has stored an item while another worker, started as
\* well, has stored none.
C9_Witness ==
    \E w, v \in Workers :
        /\ w # v /\ work_queue[w] = 1 /\ results[w] = 1
        /\ wpc[v] = "check" /\ work_queue[v] = 0
        /\ Len(THREAD_POOL) >= 2

\* C10 as stated: when main() ends, every thread of THREAD_POOL belongs to a
\* worker of self.workers whose is_running is False.
C10_EveryStartedWorkerStopped ==
    pc = "done"
        => \A k \in 1..Len(THREAD_POOL) :
              /\ \E j \in 1..Len(workers) : workers[j] = THREAD_POOL[k]
              /\ ~is_running[THREAD_POOL[k]]

====
